---- MODULE Spec2Model ----
(***************************************************************************)
(* The tool service of coco-research/tool-service: the registry `tools`,   *)
(* the tools' parameter schemas and execute methods, and the four HTTP     *)
(* handlers of main.py (list_tools, get_tool_info, execute_tool,           *)
(* execute_batch_tools).  A handler that awaits tool.execute is split at   *)
(* the await: the part before it and the part that resumes after it.       *)
(*                                                                         *)
(* Python values: a str is a string; the result of an f-string is the      *)
(* sequence of its pieces (Str), so that "the message names parameter p"   *)
(* is "p is a piece of the message"; None in a str position is the token   *)
(* "None" (what an f-string prints for it); a dict with a fixed key order  *)
(* (the registry, a schema) is a sequence of items; a request's parameters *)
(* dict is a function from its keys to str tokens for the JSON values.     *)
(***************************************************************************)
EXTENDS Integers, Sequences, FiniteSets, TLC

\* Bounds of the model.
MaxBatch == 3      \* longest batch request
MaxClock == 1      \* the wall clock runs from 0 to MaxClock

\* Request slots: the requests that can be in flight.  Spec serves one request
\* at a time, on r1; r2 is there for two requests in flight.
Slots == {"r1", "r2"}

None == "None"
NoData == [type |-> "null"]
NoParameters == [k \in {} |-> ""]

Min(a, b) == IF a <= b THEN a ELSE b

(***************************************************************************)
(* Python dict with insertion order: a sequence of [key, value] items.     *)
(***************************************************************************)
Has(d, k) == \E n \in 1..Len(d) : d[n].key = k
Lookup(d, k) == d[CHOOSE n \in 1..Len(d) : d[n].key = k].value
Keys(d) == [n \in 1..Len(d) |-> d[n].key]

\* Variant: a store that leaves a key that is present as it is.
DictStore_KeepFirst(d, k, v) ==
    IF Has(d, k) THEN d ELSE Append(d, [key |-> k, value |-> v])

\* d[k] = v: replaces the value of a key that is present, appends otherwise.
DictStore(d, k, v) ==
    IF Has(d, k)
    THEN [n \in 1..Len(d) |-> IF d[n].key = k THEN [key |-> k, value |-> v] ELSE d[n]]
    ELSE Append(d, [key |-> k, value |-> v])

\* A dict display {k1: v1, ...}: the items are stored left to right.
RECURSIVE DictDisplay(_)
DictDisplay(items) ==
    IF items = <<>> THEN <<>>
    ELSE DictStore(DictDisplay(SubSeq(items, 1, Len(items) - 1)),
                   items[Len(items)].key, items[Len(items)].value)

\* parameters.get(k, default) on a request's parameters
Get(parameters, k, default) == IF k \in DOMAIN parameters THEN parameters[k] ELSE default

(***************************************************************************)
(* The tools: name, description and parameter schema of each.              *)
(***************************************************************************)
\* Variant: the required parameter query declared with a default.
WebSearchTool_RequiredDefault ==
    [name |-> "web_search",
     description |-> "web search",
     parameters |-> DictDisplay(<<
        [key |-> "query", value |-> [type |-> "string", required |-> TRUE, default |-> ""]],
        [key |-> "num_results",
         value |-> [type |-> "integer", required |-> FALSE, default |-> "10"]],
        [key |-> "search_type",
         value |-> [type |-> "string", required |-> FALSE, default |-> "web",
                    enum |-> <<"web", "news", "academic">>]] >>)]

WebSearchTool ==
    [name |-> "web_search",
     description |-> "web search",
     parameters |-> DictDisplay(<<
        [key |-> "query", value |-> [type |-> "string", required |-> TRUE]],
        [key |-> "num_results",
         value |-> [type |-> "integer", required |-> FALSE, default |-> "10"]],
        [key |-> "search_type",
         value |-> [type |-> "string", required |-> FALSE, default |-> "web",
                    enum |-> <<"web", "news", "academic">>]] >>)]

DataAnalysisTool ==
    [name |-> "data_analysis",
     description |-> "data analysis",
     parameters |-> DictDisplay(<<
        [key |-> "data", value |-> [type |-> "array", required |-> TRUE]],
        [key |-> "analysis_type",
         value |-> [type |-> "string", required |-> TRUE,
                    enum |-> <<"descriptive", "trend", "correlation", "regression">>]],
        [key |-> "columns", value |-> [type |-> "array", required |-> FALSE]] >>)]

ReportGenerationTool ==
    [name |-> "report_generation",
     description |-> "report generation",
     parameters |-> DictDisplay(<<
        [key |-> "title", value |-> [type |-> "string", required |-> TRUE]],
        [key |-> "content", value |-> [type |-> "object", required |-> TRUE]],
        [key |-> "format",
         value |-> [type |-> "string", required |-> FALSE, default |-> "markdown",
                    enum |-> <<"markdown", "html", "json">>]],
        [key |-> "template",
         value |-> [type |-> "string", required |-> FALSE, default |-> "standard"]] >>)]

CompetitorAnalysisTool ==
    [name |-> "competitor_analysis",
     description |-> "competitor analysis",
     parameters |-> DictDisplay(<<
        [key |-> "company_name", value |-> [type |-> "string", required |-> TRUE]],
        [key |-> "competitors", value |-> [type |-> "array", required |-> FALSE]],
        [key |-> "analysis_dimensions",
         value |-> [type |-> "array", required |-> FALSE,
                    default |-> "[product, market, strategy]",
                    enum |-> <<"product", "market", "strategy", "technology", "financial">>]],
        [key |-> "time_period",
         value |-> [type |-> "string", required |-> FALSE, default |-> "1y",
                    enum |-> <<"3m", "6m", "1y", "2y", "5y">>]] >>)]

\* tools/trend_analysis.py is imported by main.py and is not among the sources:
\* a tool of the documented shape, with one required parameter.
TrendAnalysisTool ==
    [name |-> "trend_analysis",
     description |-> "trend analysis",
     parameters |-> DictDisplay(<<
        [key |-> "data", value |-> [type |-> "array", required |-> TRUE]] >>)]

\* The items of the dict display `tools = {...}`.
ToolItems ==
    << [key |-> "web_search", value |-> WebSearchTool],
       [key |-> "data_analysis", value |-> DataAnalysisTool],
       [key |-> "report_generation", value |-> ReportGenerationTool],
       [key |-> "competitor_analysis", value |-> CompetitorAnalysisTool],
       [key |-> "trend_analysis", value |-> TrendAnalysisTool] >>

get_parameters(tool) == tool.parameters

\* BaseTool.validate_parameters: the list comprehension keeps the schema's order.
required_params(tool) ==
    SelectSeq(Keys(tool.parameters), LAMBDA k : Lookup(tool.parameters, k).required)

MissingRequired(tool, parameters) ==
    SelectSeq(required_params(tool), LAMBDA k : k \notin DOMAIN parameters)

\* Variant: a validator that also rejects a value outside a declared enum.
validate_parameters_ChecksEnum(tool, parameters) ==
    LET outside == SelectSeq(Keys(tool.parameters), LAMBDA k :
                      /\ k \in DOMAIN parameters
                      /\ "enum" \in DOMAIN Lookup(tool.parameters, k)
                      /\ \A n \in 1..Len(Lookup(tool.parameters, k).enum) :
                            Lookup(tool.parameters, k).enum[n] # parameters[k])
    IN  IF MissingRequired(tool, parameters) # <<>>
        THEN [ok |-> FALSE, value |-> NoData,
              error |-> <<"Missing required parameter: ", MissingRequired(tool, parameters)[1]>>]
        ELSE IF outside # <<>>
        THEN [ok |-> FALSE, value |-> NoData, error |-> <<"Invalid value for parameter: ", outside[1]>>]
        ELSE [ok |-> TRUE, value |-> NoData, error |-> <<>>]

\* Returns TRUE, or raises ValueError(f"Missing required parameter: {param}") for
\* the first required parameter that is not a key of parameters.
validate_parameters(tool, parameters) ==
    IF MissingRequired(tool, parameters) = <<>>
    THEN [ok |-> TRUE, value |-> NoData, error |-> <<>>]
    ELSE [ok |-> FALSE, value |-> NoData,
          error |-> <<"Missing required parameter: ", MissingRequired(tool, parameters)[1]>>]

(***************************************************************************)
(* The tools' execute methods.  Each gives the set of outcomes the call    *)
(* can have when it completes at clock value t: a returned value, or the   *)
(* exception raised (its str()).                                           *)
(***************************************************************************)
Returns(value) == [ok |-> TRUE, value |-> value, error |-> <<>>]
Raises(error) == [ok |-> FALSE, value |-> NoData, error |-> error]

\* The JSON values of the requests that are integers, and those that are arrays.
IntValue == [v \in {"0", "1", "3", "10"} |->
                CASE v = "0" -> 0 [] v = "1" -> 1 [] v = "3" -> 3 [] v = "10" -> 10]
ArrayValue == [v \in {"[]", "[rival]", "[product, market, strategy]"} |->
                CASE v = "[]" -> <<>>
                  [] v = "[rival]" -> <<"rival">>
                  [] v = "[product, market, strategy]" -> <<"product", "market", "strategy">>]

isoformat(t) == ToString(t)

\* WebSearchTool._perform_search: mock_results[:num_results] of two mock results.
perform_search(query, num_results) ==
    [n \in 1..Min(IntValue[num_results], 2) |->
        [title |-> <<"result ", ToString(n), " - ", query>>, source |-> "example.com"]]

\* Variant: the result's timestamp is taken from the clock.
WebSearchExecute_Timestamped(parameters, t) ==
    LET query == Get(parameters, "query", None)
        num_results == Get(parameters, "num_results", "10")
        search_type == Get(parameters, "search_type", "web")
    IN  IF num_results \notin DOMAIN IntValue
        THEN {Raises(<<"slice indices must be integers or None or have an __index__ method">>)}
        ELSE {Returns([type |-> "object",
                       query |-> query,
                       search_type |-> search_type,
                       num_results |-> Len(perform_search(query, num_results)),
                       results |-> perform_search(query, num_results),
                       timestamp |-> isoformat(t)])}

WebSearchExecute(parameters, t) ==
    LET query == Get(parameters, "query", None)
        num_results == Get(parameters, "num_results", "10")
        search_type == Get(parameters, "search_type", "web")
    IN  IF num_results \notin DOMAIN IntValue
        THEN {Raises(<<"slice indices must be integers or None or have an __index__ method">>)}
        ELSE {Returns([type |-> "object",
                       query |-> query,
                       search_type |-> search_type,
                       num_results |-> Len(perform_search(query, num_results)),
                       results |-> perform_search(query, num_results),
                       timestamp |-> "2024-01-01T00:00:00Z"])}

\* DataAnalysisTool.execute: pd is bound nowhere in the module, so the first
\* statement of the try block raises NameError, which is re-raised.
DataAnalysisExecute(parameters, t) ==
    {Raises(<<"name 'pd' is not defined">>)}

\* ReportGenerationTool.execute.  The report (a str for markdown and html, a
\* dict for json) is kept as the record of what it is built from; the
\* `"summary" in content` tests raise TypeError when content is None.
ReportGenerationExecute(parameters, t) ==
    LET title == Get(parameters, "title", None)
        content == Get(parameters, "content", None)
        format_type == Get(parameters, "format", "markdown")
        template == Get(parameters, "template", "standard")
        wrap(report) == Returns([type |-> "object",
                                 title |-> title,
                                 format |-> format_type,
                                 template |-> template,
                                 content |-> report,
                                 generated_at |-> isoformat(t)])
    IN  IF format_type \in {"markdown", "html"}
        THEN IF content = None
             THEN {Raises(<<"argument of type 'NoneType' is not iterable">>)}
             ELSE {wrap([title |-> title, generated_at |-> isoformat(t),
                         template |-> format_type, content |-> content])}
        ELSE IF format_type = "json"
        THEN {wrap([title |-> title, generated_at |-> isoformat(t),
                    template |-> template, content |-> content])}
        ELSE {Raises(<<"Unsupported format: ", format_type>>)}

\* CompetitorAnalysisTool.execute: _compare_competitors iterates competitors;
\* the result is filtered by the dimensions that are keys of it.
CompetitorAnalysisExecute(parameters, t) ==
    LET company_name == Get(parameters, "company_name", None)
        competitors == Get(parameters, "competitors", "[]")
        dimensions == Get(parameters, "analysis_dimensions", "[product, market, strategy]")
        time_period == Get(parameters, "time_period", "1y")
        result_keys == {"company_overview", "competitor_comparison", "market_position",
                        "swot_analysis", "recommendations"}
    IN  IF competitors \notin DOMAIN ArrayValue
        THEN {Raises(<<"'int' object is not iterable">>)}
        ELSE IF dimensions \notin DOMAIN ArrayValue
        THEN {Raises(<<"'int' object is not iterable">>)}
        ELSE {Returns([type |-> "object",
                       company_name |-> company_name,
                       competitors |-> competitors,
                       analysis_dimensions |-> dimensions,
                       time_period |-> time_period,
                       analysis_result |->
                           SelectSeq(ArrayValue[dimensions], LAMBDA d : d \in result_keys),
                       generated_at |-> isoformat(t)])}

\* TrendAnalysisTool.execute is not among the sources: an operation that
\* resolves to a value or fails.
TrendAnalysisExecute(parameters, t) ==
    {Returns([type |-> "object", trend |-> "computed"]), Raises(<<"trend analysis failed">>)}

\* await tool.execute(parameters), by the class of the tool
Execute(tool, parameters, t) ==
    CASE tool.name = "web_search" -> WebSearchExecute(parameters, t)
      [] tool.name = "data_analysis" -> DataAnalysisExecute(parameters, t)
      [] tool.name = "report_generation" -> ReportGenerationExecute(parameters, t)
      [] tool.name = "competitor_analysis" -> CompetitorAnalysisExecute(parameters, t)
      [] tool.name = "trend_analysis" -> TrendAnalysisExecute(parameters, t)

(***************************************************************************)
(* State.                                                                  *)
(***************************************************************************)
VARIABLES
    tools,       \* the registry: name -> tool, in registration order
    now,         \* datetime.now()
    pc,          \* per slot: where the request's handler stands
    request,     \* per slot: the handler called and its arguments
    start_time,  \* per slot: the handler's start_time
    i,           \* per slot: position of the batch loop in requests
    results,     \* per slot: the batch handler's results list
    response,    \* per slot: what the handler returned or raised
    executed,    \* per slot: the tool.execute calls made, in order
    returned     \* per slot: what each of those calls returned or raised

vars == <<tools, now, pc, request, start_time, i, results, response, executed, returned>>

NoRequest == [handler |-> "none", tool_name |-> "", parameters |-> NoParameters,
              requests |-> <<>>]
NoResponse == [kind |-> "none"]

\* class ToolRequest(BaseModel)
ToolRequest(tool_name, parameters) == [tool_name |-> tool_name, parameters |-> parameters]

\* class ToolResponse(BaseModel)
ToolResponse(success, data, message, execution_time) ==
    [kind |-> "ToolResponse", success |-> success, data |-> data, message |-> message,
     execution_time |-> execution_time]

HTTPException(status_code, detail) ==
    [kind |-> "HTTPException", status_code |-> status_code, detail |-> detail]

\* (datetime.now() - start_time).total_seconds()
total_seconds(start, end) == end - start

Init ==
    /\ tools = DictDisplay(ToolItems)
    /\ now = 0
    /\ pc = [s \in Slots |-> "idle"]
    /\ request = [s \in Slots |-> NoRequest]
    /\ start_time = [s \in Slots |-> 0]
    /\ i = [s \in Slots |-> 0]
    /\ results = [s \in Slots |-> <<>>]
    /\ response = [s \in Slots |-> NoResponse]
    /\ executed = [s \in Slots |-> <<>>]
    /\ returned = [s \in Slots |-> <<>>]

\* A slot takes a new request when it is free.
Free(s) == pc[s] = "idle"

\* The handler's return value (or exception) goes out as the HTTP response;
\* nothing of the request is kept.
respond(s) ==
    /\ pc[s] = "done"
    /\ pc' = [pc EXCEPT ![s] = "idle"]
    /\ request' = [request EXCEPT ![s] = NoRequest]
    /\ response' = [response EXCEPT ![s] = NoResponse]
    /\ start_time' = [start_time EXCEPT ![s] = 0]
    /\ i' = [i EXCEPT ![s] = 0]
    /\ results' = [results EXCEPT ![s] = <<>>]
    /\ executed' = [executed EXCEPT ![s] = <<>>]
    /\ returned' = [returned EXCEPT ![s] = <<>>]
    /\ UNCHANGED <<tools, now>>

\* The clock advances between any two steps.
Tick ==
    /\ now < MaxClock
    /\ now' = now + 1
    /\ UNCHANGED <<tools, pc, request, start_time, i, results, response, executed, returned>>

\* A call tool.validate_parameters(parameters): what it returned or raised, and
\* the parameters dict as the call left it (the method assigns to no key).
validate_parameters_call(s, tool_name, parameters) ==
    /\ Free(s)
    /\ Has(tools, tool_name)
    /\ request' = [request EXCEPT ![s] =
            [NoRequest EXCEPT !.handler = "validate_parameters", !.tool_name = tool_name,
                              !.parameters = parameters]]
    /\ response' = [response EXCEPT ![s] =
            [kind |-> "validated",
             outcome |-> validate_parameters(Lookup(tools, tool_name), parameters),
             parameters |-> parameters]]
    /\ pc' = [pc EXCEPT ![s] = "done"]
    /\ start_time' = [start_time EXCEPT ![s] = 0]
    /\ i' = [i EXCEPT ![s] = 0]
    /\ results' = [results EXCEPT ![s] = <<>>]
    /\ executed' = [executed EXCEPT ![s] = <<>>]
    /\ returned' = [returned EXCEPT ![s] = <<>>]
    /\ UNCHANGED <<tools, now>>

(***************************************************************************)
(* GET /tools and GET /tools/{tool_name}                                   *)
(***************************************************************************)
\* Variant: the missing tool reported in a response body instead of raised.
ToolNotFound_Envelope == ToolResponse(FALSE, NoData, <<"Tool not found">>, 0)

\* raise HTTPException(status_code=404, detail="Tool not found")
ToolNotFound == HTTPException(404, "Tool not found")

ToolInfo(name, tool) ==
    [name |-> name, description |-> tool.description,
     parameters |-> get_parameters(tool), status |-> "available"]

list_tools(s) ==
    /\ Free(s)
    /\ request' = [request EXCEPT ![s] = [NoRequest EXCEPT !.handler = "list_tools"]]
    /\ response' = [response EXCEPT ![s] =
            [kind |-> "tools",
             tools |-> [n \in 1..Len(tools) |-> ToolInfo(tools[n].key, tools[n].value)]]]
    /\ pc' = [pc EXCEPT ![s] = "done"]
    /\ start_time' = [start_time EXCEPT ![s] = 0]
    /\ i' = [i EXCEPT ![s] = 0]
    /\ results' = [results EXCEPT ![s] = <<>>]
    /\ executed' = [executed EXCEPT ![s] = <<>>]
    /\ returned' = [returned EXCEPT ![s] = <<>>]
    /\ UNCHANGED <<tools, now>>

\* Variant: the lookup takes the tool out of the registry (tools.pop).
get_tool_info_Pops(s, tool_name) ==
    /\ Free(s)
    /\ request' = [request EXCEPT ![s] =
            [NoRequest EXCEPT !.handler = "get_tool_info", !.tool_name = tool_name]]
    /\ response' = [response EXCEPT ![s] =
            IF ~Has(tools, tool_name)
            THEN ToolNotFound
            ELSE [kind |-> "tool", tool |-> ToolInfo(tool_name, Lookup(tools, tool_name))]]
    /\ tools' = SelectSeq(tools, LAMBDA item : item.key # tool_name)
    /\ pc' = [pc EXCEPT ![s] = "done"]
    /\ start_time' = [start_time EXCEPT ![s] = 0]
    /\ i' = [i EXCEPT ![s] = 0]
    /\ results' = [results EXCEPT ![s] = <<>>]
    /\ executed' = [executed EXCEPT ![s] = <<>>]
    /\ returned' = [returned EXCEPT ![s] = <<>>]
    /\ UNCHANGED now

get_tool_info(s, tool_name) ==
    /\ Free(s)
    /\ request' = [request EXCEPT ![s] =
            [NoRequest EXCEPT !.handler = "get_tool_info", !.tool_name = tool_name]]
    /\ response' = [response EXCEPT ![s] =
            IF ~Has(tools, tool_name)
            THEN ToolNotFound
            ELSE [kind |-> "tool", tool |-> ToolInfo(tool_name, Lookup(tools, tool_name))]]
    /\ pc' = [pc EXCEPT ![s] = "done"]
    /\ start_time' = [start_time EXCEPT ![s] = 0]
    /\ i' = [i EXCEPT ![s] = 0]
    /\ results' = [results EXCEPT ![s] = <<>>]
    /\ executed' = [executed EXCEPT ![s] = <<>>]
    /\ returned' = [returned EXCEPT ![s] = <<>>]
    /\ UNCHANGED <<tools, now>>

(***************************************************************************)
(* POST /tools/{tool_name}/execute                                         *)
(***************************************************************************)
\* Variants of the two responses, as a slip in the handler would make them:
\* the result left out of the success response; the exception not caught; the
\* exception's text passed on without the handler's prefix.
ExecuteToolSuccess_NoData(result, execution_time) ==
    ToolResponse(TRUE, NoData, <<"Tool executed successfully">>, execution_time)

ExecuteToolFailure_Uncaught(error, execution_time) ==
    [kind |-> "Exception", error |-> error]

ExecuteToolFailure_Verbatim(error, execution_time) ==
    ToolResponse(FALSE, NoData, error, execution_time)

\* What the handler returns when execute returned `result`.
ExecuteToolSuccess(result, execution_time) ==
    ToolResponse(TRUE, result, <<"Tool executed successfully">>, execution_time)

\* What the handler returns when execute raised e (str(e) = error).
ExecuteToolFailure(error, execution_time) ==
    ToolResponse(FALSE, NoData, <<"Tool execution failed: ">> \o error, execution_time)

\* Variant: the request is kept in a module-level name that every handler
\* assigns, so a handler resuming from its await finds the request of another
\* handler of the same route that is in flight.
OwnRequest_Shared(s) ==
    LET o == CHOOSE o \in Slots : o # s
    IN  IF /\ pc[o] \in {"execute_tool_await", "batch_await", "batch_loop"}
           /\ request[o].handler = request[s].handler
           /\ Len(request[o].requests) >= i[s]
        THEN request[o]
        ELSE request[s]

\* The handler's parameter `request` (and tool_name): a local of the
\* coroutine, which it finds again when it resumes from an await.
OwnRequest(s) == request[s]

\* The call of tool.execute, recorded.
Call(pos, tool_name, parameters) ==
    [pos |-> pos, tool_name |-> tool_name, parameters |-> parameters]

\* Up to the await: the lookup, start_time, and the call of tool.execute.
execute_tool(s, tool_name, body) ==
    /\ Free(s)
    /\ request' = [request EXCEPT ![s] =
            [NoRequest EXCEPT !.handler = "execute_tool", !.tool_name = tool_name,
                              !.parameters = body.parameters]]
    /\ i' = [i EXCEPT ![s] = 0]
    /\ results' = [results EXCEPT ![s] = <<>>]
    /\ IF ~Has(tools, tool_name)
       THEN /\ response' = [response EXCEPT ![s] = ToolNotFound]
            /\ pc' = [pc EXCEPT ![s] = "done"]
            /\ start_time' = [start_time EXCEPT ![s] = 0]
            /\ executed' = [executed EXCEPT ![s] = <<>>]
       ELSE /\ response' = [response EXCEPT ![s] = NoResponse]
            /\ pc' = [pc EXCEPT ![s] = "execute_tool_await"]
            /\ start_time' = [start_time EXCEPT ![s] = now]
            /\ executed' = [executed EXCEPT ![s] = <<Call(0, tool_name, body.parameters)>>]
    /\ returned' = [returned EXCEPT ![s] = <<>>]
    /\ UNCHANGED <<tools, now>>

\* From the await on: execute returned or raised; the response is built.
execute_tool_resume(s) ==
    /\ pc[s] = "execute_tool_await"
    /\ \E outcome \in Execute(Lookup(tools, OwnRequest(s).tool_name),
                              OwnRequest(s).parameters, now) :
          /\ returned' = [returned EXCEPT ![s] = Append(@, outcome)]
          /\ response' = [response EXCEPT ![s] =
                IF outcome.ok
                THEN ExecuteToolSuccess(outcome.value, total_seconds(start_time[s], now))
                ELSE ExecuteToolFailure(outcome.error, total_seconds(start_time[s], now))]
    /\ pc' = [pc EXCEPT ![s] = "done"]
    /\ UNCHANGED <<tools, now, request, start_time, i, results, executed>>

(***************************************************************************)
(* POST /tools/batch                                                       *)
(***************************************************************************)
\* Variant: a not-found item that carries a timing field.
BatchNotFound_Timed(req) ==
    [tool_name |-> req.tool_name, success |-> FALSE, error |-> <<"Tool not found">>,
     execution_time |-> 0]

BatchNotFound(req) ==
    [tool_name |-> req.tool_name, success |-> FALSE, error |-> <<"Tool not found">>]

BatchSuccess(req, result, execution_time) ==
    [tool_name |-> req.tool_name, success |-> TRUE, data |-> result,
     execution_time |-> execution_time]

BatchFailure(req, error, execution_time) ==
    [tool_name |-> req.tool_name, success |-> FALSE, error |-> error,
     execution_time |-> execution_time]

\* Variants of the not-found branch: the item not appended; the loop left
\* (break) instead of continued.
NotFoundResults_Dropped(rs, req) == rs

NotFoundNext_Break(j, requests) == Len(requests) + 1

\* results.append({... "error": "Tool not found"})
NotFoundResults(rs, req) == Append(rs, BatchNotFound(req))

\* continue: the loop goes to the next request.
NotFoundNext(j, requests) == j + 1

\* results = []; the for loop starts.
execute_batch_tools(s, requests) ==
    /\ Free(s)
    /\ request' = [request EXCEPT ![s] =
            [NoRequest EXCEPT !.handler = "execute_batch_tools", !.requests = requests]]
    /\ results' = [results EXCEPT ![s] = <<>>]
    /\ i' = [i EXCEPT ![s] = 1]
    /\ pc' = [pc EXCEPT ![s] = "batch_loop"]
    /\ response' = [response EXCEPT ![s] = NoResponse]
    /\ start_time' = [start_time EXCEPT ![s] = 0]
    /\ executed' = [executed EXCEPT ![s] = <<>>]
    /\ returned' = [returned EXCEPT ![s] = <<>>]
    /\ UNCHANGED <<tools, now>>

\* One pass of the loop head: the loop ends and the handler returns, or the
\* request's tool is missing (continue), or its execute is called and awaited.
\* Variant: the call of execute is started and not awaited (a task per item);
\* the loop goes on to the next request at once.
execute_batch_tools_loop_NoAwait(s) ==
    /\ pc[s] = "batch_loop"
    /\ IF i[s] > Len(request[s].requests)
       THEN /\ response' = [response EXCEPT ![s] = [kind |-> "results", results |-> results[s]]]
            /\ pc' = [pc EXCEPT ![s] = "done"]
            /\ UNCHANGED <<start_time, i, results, executed>>
       ELSE LET req == request[s].requests[i[s]] IN
            IF ~Has(tools, req.tool_name)
            THEN /\ results' = [results EXCEPT ![s] = NotFoundResults(@, req)]
                 /\ i' = [i EXCEPT ![s] = NotFoundNext(@, request[s].requests)]
                 /\ UNCHANGED <<pc, start_time, response, executed>>
            ELSE /\ start_time' = [start_time EXCEPT ![s] = now]
                 /\ executed' = [executed EXCEPT ![s] =
                        Append(@, Call(i[s], req.tool_name, req.parameters))]
                 /\ i' = [i EXCEPT ![s] = @ + 1]
                 /\ UNCHANGED <<pc, results, response>>
    /\ UNCHANGED <<tools, now, request, returned>>

execute_batch_tools_loop(s) ==
    /\ pc[s] = "batch_loop"
    /\ IF i[s] > Len(request[s].requests)
       THEN /\ response' = [response EXCEPT ![s] = [kind |-> "results", results |-> results[s]]]
            /\ pc' = [pc EXCEPT ![s] = "done"]
            /\ UNCHANGED <<start_time, i, results, executed>>
       ELSE LET req == request[s].requests[i[s]] IN
            IF ~Has(tools, req.tool_name)
            THEN /\ results' = [results EXCEPT ![s] = NotFoundResults(@, req)]
                 /\ i' = [i EXCEPT ![s] = NotFoundNext(@, request[s].requests)]
                 /\ UNCHANGED <<pc, start_time, response, executed>>
            ELSE /\ start_time' = [start_time EXCEPT ![s] = now]
                 /\ executed' = [executed EXCEPT ![s] =
                        Append(@, Call(i[s], req.tool_name, req.parameters))]
                 /\ pc' = [pc EXCEPT ![s] = "batch_await"]
                 /\ UNCHANGED <<i, results, response>>
    /\ UNCHANGED <<tools, now, request, returned>>

\* From the await on: the item's result is appended and the loop goes on.
execute_batch_tools_resume(s) ==
    /\ pc[s] = "batch_await"
    /\ LET req == OwnRequest(s).requests[i[s]] IN
       \E outcome \in Execute(Lookup(tools, req.tool_name), req.parameters, now) :
          /\ returned' = [returned EXCEPT ![s] = Append(@, outcome)]
          /\ results' = [results EXCEPT ![s] = Append(@,
                IF outcome.ok
                THEN BatchSuccess(req, outcome.value, total_seconds(start_time[s], now))
                ELSE BatchFailure(req, outcome.error, total_seconds(start_time[s], now)))]
    /\ i' = [i EXCEPT ![s] = @ + 1]
    /\ pc' = [pc EXCEPT ![s] = "batch_loop"]
    /\ UNCHANGED <<tools, now, request, start_time, response, executed>>

(***************************************************************************)
(* The requests the clients send.                                          *)
(***************************************************************************)
\* Per tool, the parameters a request may carry and the values of each; every
\* subset of the keys is sent.  "many" is a string where an integer is expected,
\* "7" an integer where an array is, "pdf" a format outside the enum.
InputChoices(tool_name) ==
    CASE tool_name = "web_search" -> [query |-> {"ai"}, num_results |-> {"1", "many"}]
      [] tool_name = "data_analysis" -> [data |-> {"[]"}, analysis_type |-> {"trend"}]
      [] tool_name = "report_generation" ->
            [title |-> {"Q3"}, content |-> {"{}"}, format |-> {"json", "pdf"}]
      [] tool_name = "competitor_analysis" ->
            [company_name |-> {"acme"}, competitors |-> {"[rival]", "7"}]
      [] tool_name = "trend_analysis" -> [data |-> {"[]"}]
      [] OTHER -> [k \in {} |-> {}]

Mappings(choices) ==
    UNION { {f \in [S -> UNION {choices[k] : k \in S}] : \A k \in S : f[k] \in choices[k]}
            : S \in SUBSET DOMAIN choices }

InputNames == {ToolItems[n].key : n \in 1..Len(ToolItems)} \cup {"nonexistent"}

ToolRequests ==
    UNION { {ToolRequest(name, p) : p \in Mappings(InputChoices(name))} : name \in InputNames }

\* The requests of the longer batches: an unknown tool, a call that succeeds,
\* one that omits its required parameter, and one whose execute raises.  (Every
\* request of ToolRequests is sent as a batch of one.)
BatchItems ==
    { ToolRequest("nonexistent", NoParameters),
      ToolRequest("web_search", [query |-> "ai"]),
      ToolRequest("web_search", NoParameters),
      ToolRequest("report_generation", [title |-> "Q3"]) }

Batches ==
    UNION {[1..n -> BatchItems] : n \in 0..MaxBatch} \cup {<<req>> : req \in ToolRequests}

\* One request at a time.
Sequential == {"r1"}

Next ==
    \/ Tick
    \/ \E s \in Sequential : list_tools(s)
    \/ \E s \in Sequential, name \in InputNames : get_tool_info(s, name)
    \/ \E s \in Sequential, req \in ToolRequests : execute_tool(s, req.tool_name, req)
    \/ \E s \in Sequential : execute_tool_resume(s)
    \/ \E s \in Sequential, requests \in Batches : execute_batch_tools(s, requests)
    \/ \E s \in Sequential : execute_batch_tools_loop(s)
    \/ \E s \in Sequential : execute_batch_tools_resume(s)
    \/ \E s \in Sequential : respond(s)

Spec == Init /\ [][Next]_vars

\* The event loop runs a handler that can go on, and an awaited execute
\* resolves: the batch loop's two steps are taken when they stay enabled.
Fairness ==
    \A s \in Sequential :
        /\ WF_vars(execute_batch_tools_loop(s))
        /\ WF_vars(execute_batch_tools_resume(s))

LiveSpec == Init /\ [][Next]_vars /\ Fairness

\* The parameters handed to validate_parameters: every subset of the tool's
\* declared keys and of an undeclared key, each with the value "web" (a string,
\* in the enum of search_type only) or "7" (an integer, in no enum).
ValidateChoices(tool_name) ==
    LET schema == Lookup(tools, tool_name).parameters
    IN  [k \in {schema[n].key : n \in 1..Len(schema)} \cup {"undeclared"} |-> {"web", "7"}]

ValidateNext ==
    \/ \E s \in Sequential, n \in 1..Len(tools) :
          \E p \in Mappings(ValidateChoices(tools[n].key)) :
             validate_parameters_call(s, tools[n].key, p)
    \/ \E s \in Sequential : respond(s)

ValidateSpec == Init /\ [][ValidateNext]_vars

\* Requests in flight together: the dispatches and batches two clients send
\* while the other's handler is suspended at its await.  web_search twice with
\* different results, a tool whose result carries the clock, one whose execute
\* raises, and an unknown name.
ConcRequests ==
    { ToolRequest("web_search", [query |-> "ai"]),
      ToolRequest("web_search", [query |-> "ai", num_results |-> "1"]),
      ToolRequest("report_generation", [title |-> "Q3", format |-> "json"]),
      ToolRequest("data_analysis", [data |-> "[]"]),
      ToolRequest("nonexistent", NoParameters) }

ConcBatches ==
    { <<ToolRequest("web_search", [query |-> "ai"]),
        ToolRequest("report_generation", [title |-> "Q3", format |-> "json"])>>,
      <<ToolRequest("nonexistent", NoParameters),
        ToolRequest("web_search", [query |-> "ai", num_results |-> "1"])>> }

ConcNext ==
    \/ Tick
    \/ \E s \in Slots, req \in ConcRequests : execute_tool(s, req.tool_name, req)
    \/ \E s \in Slots : execute_tool_resume(s)
    \/ \E s \in Slots, requests \in ConcBatches : execute_batch_tools(s, requests)
    \/ \E s \in Slots : execute_batch_tools_loop(s)
    \/ \E s \in Slots : execute_batch_tools_resume(s)
    \/ \E s \in Slots : respond(s)

ConcSpec == Init /\ [][ConcNext]_vars

(***************************************************************************)
(* Properties.                                                             *)
(***************************************************************************)
\* The handler `handler` has finished on slot s.
Done(s, handler) == pc[s] = "done" /\ request[s].handler = handler

\* The message has `word` as one of its pieces.
Mentions(message, word) == \E n \in 1..Len(message) : message[n] = word

\* The tool a finished single-item request named, and what it omitted.
DoneTool(s) == Lookup(tools, request[s].tool_name)
DoneMissing(s) == MissingRequired(DoneTool(s), request[s].parameters)

\* C1: a single-item dispatch of a registered tool whose parameters omit a
\* required parameter returns success=false with a message that names a
\* missing required parameter.
C1_MissingRequiredRejected ==
    \A s \in Slots :
        (Done(s, "execute_tool") /\ Has(tools, request[s].tool_name)
            /\ DoneMissing(s) # <<>>)
        => /\ response[s].kind = "ToolResponse"
           /\ ~response[s].success
           /\ \E n \in 1..Len(DoneMissing(s)) :
                 Mentions(response[s].message, DoneMissing(s)[n])

\* C2: a dispatch of a registered tool always ends in an envelope, never in an
\* exception; when execute raised, the envelope has success=false; and every
\* envelope (single or batch item) with success=false carries no data.
C2_FailuresBecomeEnvelopes ==
    \A s \in Slots :
        /\ (Done(s, "execute_tool") /\ Has(tools, request[s].tool_name))
           => /\ response[s].kind = "ToolResponse"
              /\ Len(returned[s]) = 1
              /\ (~returned[s][1].ok => ~response[s].success)
              /\ (~response[s].success => response[s].data = NoData)
        /\ \A n \in 1..Len(results[s]) :
              ~results[s][n].success => "data" \notin DOMAIN results[s][n]

C2_Witness ==
    \E s \in Slots :
        /\ Done(s, "execute_tool") /\ Has(tools, request[s].tool_name)
        /\ Len(returned[s]) = 1 /\ ~returned[s][1].ok
        /\ response[s].kind = "ToolResponse" /\ ~response[s].success

\* C3 as stated: when the dispatched call fails, the envelope's message is
\* the failure's own message, nothing added or removed.
C3_MessageVerbatim ==
    \A s \in Slots :
        (Done(s, "execute_tool") /\ Has(tools, request[s].tool_name)
            /\ Len(returned[s]) = 1 /\ ~returned[s][1].ok)
        => response[s].message = returned[s][1].error

\* C3 as amended: when the dispatched call fails, the envelope's message is
\* the fixed prefix "Tool execution failed: " followed by the failure's own
\* message verbatim.
C3_MessagePrefixed ==
    \A s \in Slots :
        (Done(s, "execute_tool") /\ Has(tools, request[s].tool_name)
            /\ Len(returned[s]) = 1 /\ ~returned[s][1].ok)
        => /\ response[s].kind = "ToolResponse"
           /\ response[s].message = <<"Tool execution failed: ">> \o returned[s][1].error

\* report_generation with format "pdf": "Tool execution failed: Unsupported format: pdf"
C3_Witness ==
    \E s \in Slots :
        /\ Done(s, "execute_tool")
        /\ request[s].tool_name = "report_generation"
        /\ response[s].kind = "ToolResponse"
        /\ response[s].message = <<"Tool execution failed: ", "Unsupported format: ", "pdf">>

\* C4: a dispatch of a registered tool whose execute returns gives success=true,
\* data = the value execute returned, the message "Tool executed successfully",
\* and an execution_time that is present and not negative.
C4_SuccessEnvelope ==
    \A s \in Slots :
        (Done(s, "execute_tool") /\ Has(tools, request[s].tool_name)
            /\ Len(returned[s]) = 1 /\ returned[s][1].ok)
        => /\ response[s].kind = "ToolResponse"
           /\ response[s].success
           /\ response[s].data = returned[s][1].value
           /\ response[s].message = <<"Tool executed successfully">>
           /\ "execution_time" \in DOMAIN response[s]
           /\ response[s].execution_time >= 0

\* All required parameters present, execute returned, and time went by.
C4_Witness ==
    \E s \in Slots :
        /\ Done(s, "execute_tool") /\ Has(tools, request[s].tool_name)
        /\ DoneMissing(s) = <<>>
        /\ Len(returned[s]) = 1 /\ returned[s][1].ok
        /\ response[s].kind = "ToolResponse" /\ response[s].success
        /\ response[s].data # NoData
        /\ response[s].execution_time > 0

\* The batch handler is running or has finished on slot s.
InBatch(s) == request[s].handler = "execute_batch_tools"

\* The execute calls made for the request at position j of the batch on s.
CallsAt(s, j) == {k \in 1..Len(executed[s]) : executed[s][k].pos = j}

\* C5: a finished batch returns one result per request, in the order of the
\* requests: as many results as requests, result j carrying the tool_name of
\* request j; the empty batch returns the empty list.
C5_OneResultPerRequestInOrder ==
    \A s \in Slots :
        Done(s, "execute_batch_tools")
        => /\ response[s].kind = "results"
           /\ Len(response[s].results) = Len(request[s].requests)
           /\ \A j \in 1..Len(request[s].requests) :
                 response[s].results[j].tool_name = request[s].requests[j].tool_name

\* A batch of three: a failure, a success, a failure.
C5_Witness ==
    \E s \in Slots :
        /\ Done(s, "execute_batch_tools")
        /\ Len(request[s].requests) = 3
        /\ Len(response[s].results) = 3
        /\ ~response[s].results[1].success
        /\ response[s].results[2].success
        /\ ~response[s].results[3].success
        /\ request[s].requests[1].tool_name # request[s].requests[2].tool_name

\* C6: in a batch's results, the item of a request whose tool is not in the
\* registry has success=false, error "Tool not found" and no execution_time,
\* and no execute was called for it; the item of a request whose tool is
\* registered has an execution_time, and an error when it failed.
C6_BatchItemShapes ==
    \A s \in Slots :
        InBatch(s) =>
        \A j \in 1..Len(results[s]) :
            LET req == request[s].requests[j]
                item == results[s][j]
            IN  IF ~Has(tools, req.tool_name)
                THEN /\ ~item.success
                     /\ item.error = <<"Tool not found">>
                     /\ "execution_time" \notin DOMAIN item
                     /\ CallsAt(s, j) = {}
                ELSE /\ "execution_time" \in DOMAIN item
                     /\ (~item.success => "error" \in DOMAIN item)

\* A finished batch with a not-found item and an executed item that failed.
C6_Witness ==
    \E s \in Slots :
        /\ Done(s, "execute_batch_tools")
        /\ \E j, k \in 1..Len(results[s]) :
              /\ ~Has(tools, request[s].requests[j].tool_name)
              /\ "execution_time" \notin DOMAIN results[s][j]
              /\ Has(tools, request[s].requests[k].tool_name)
              /\ ~results[s][k].success
              /\ "execution_time" \in DOMAIN results[s][k]
              /\ "error" \in DOMAIN results[s][k]

\* C10: a single-item call (introspect or execute) that names a tool not in
\* the registry ends in the 404 "Tool not found" error, not in an envelope,
\* with no execute called; the same name in a batch is a failed item of the
\* results.
C10_NotFoundRoutingVersusInBand ==
    \A s \in Slots :
        /\ ((Done(s, "execute_tool") \/ Done(s, "get_tool_info"))
               /\ ~Has(tools, request[s].tool_name))
           => /\ response[s] = HTTPException(404, "Tool not found")
              /\ executed[s] = <<>>
        /\ Done(s, "execute_batch_tools")
           => /\ response[s].kind = "results"
              /\ \A j \in 1..Len(request[s].requests) :
                    ~Has(tools, request[s].requests[j].tool_name)
                    => /\ j <= Len(response[s].results)
                       /\ ~response[s].results[j].success
                       /\ response[s].results[j].error = <<"Tool not found">>

C10_Witness ==
    \E s \in Slots :
        /\ Done(s, "execute_tool")
        /\ ~Has(tools, request[s].tool_name)
        /\ response[s].kind = "HTTPException"
        /\ response[s].status_code = 404

\* In the batch on s, every request whose tool is registered has had its
\* execute called exactly once.
EachRegisteredCalledOnce(s) ==
    \A j \in 1..Len(request[s].requests) :
        Has(tools, request[s].requests[j].tool_name) => Cardinality(CallsAt(s, j)) = 1

\* C7: whatever fails in a batch (an unknown tool, an execute that raises),
\* the batch goes on: no request is dispatched more than once, and a batch
\* that has started eventually returns, with every request whose tool is
\* registered dispatched exactly once.
C7_BatchFailureIsolation ==
    /\ [](\A s \in Slots : \A j \in 1..MaxBatch + 1 : Cardinality(CallsAt(s, j)) <= 1)
    /\ \A s \in Slots :
          (InBatch(s) /\ pc[s] # "done")
              ~> (Done(s, "execute_batch_tools") /\ EachRegisteredCalledOnce(s))

\* A finished batch in which a request after a failed one was dispatched:
\* after an unknown tool and after an execute that raised.
C7_Witness ==
    \E s \in Slots :
        /\ Done(s, "execute_batch_tools")
        /\ Len(results[s]) = 3
        /\ ~Has(tools, request[s].requests[1].tool_name)
        /\ Has(tools, request[s].requests[2].tool_name)
        /\ ~results[s][2].success
        /\ CallsAt(s, 2) # {}
        /\ Has(tools, request[s].requests[3].tool_name)
        /\ CallsAt(s, 3) # {}

\* What execute returned or raised for the request at position j.
OutcomeAt(s, j) == returned[s][CHOOSE k \in CallsAt(s, j) : TRUE]

\* The envelope single-item dispatch builds from an outcome of execute.
SingleEnvelope(outcome) ==
    IF outcome.ok
    THEN ExecuteToolSuccess(outcome.value, 0)
    ELSE ExecuteToolFailure(outcome.error, 0)

\* C8: the batch item of a request whose tool is registered is what single-item
\* dispatch makes of it: the same success flag, the same data on success, and,
\* when the request omits a required parameter, a failed item whose error
\* names a missing parameter.
C8_BatchItemAsSingleDispatch ==
    \A s \in Slots :
        InBatch(s) =>
        \A j \in 1..Len(results[s]) :
            LET req == request[s].requests[j]
                item == results[s][j]
                missing == MissingRequired(Lookup(tools, req.tool_name), req.parameters)
            IN  Has(tools, req.tool_name) =>
                /\ item.success = SingleEnvelope(OutcomeAt(s, j)).success
                /\ (item.success => item.data = SingleEnvelope(OutcomeAt(s, j)).data)
                /\ (missing # <<>> =>
                       /\ ~item.success
                       /\ "error" \in DOMAIN item
                       /\ \E n \in 1..Len(missing) : Mentions(item.error, missing[n]))

MissingAt(schema, parameters) ==
    {n \in 1..Len(schema) : schema[n].value.required /\ schema[n].key \notin DOMAIN parameters}

\* C11: validate_parameters succeeds exactly when every parameter the schema
\* declares required is a key of parameters, and otherwise raises the error
\* that names the first missing required parameter in the schema's order;
\* values, types, enums and undeclared keys play no part, and the parameters
\* are left as they were.
C11_ValidateRequiredKeysOnly ==
    \A s \in Slots :
        Done(s, "validate_parameters") =>
        LET schema == DoneTool(s).parameters
            missing == MissingAt(schema, request[s].parameters)
            first == CHOOSE n \in missing : \A m \in missing : n <= m
        IN  /\ response[s].outcome.ok = (missing = {})
            /\ missing # {} =>
                  response[s].outcome.error =
                      <<"Missing required parameter: ", schema[first].key>>
            /\ response[s].parameters = request[s].parameters

\* Two required parameters missing, the first one named, with an undeclared
\* key and a value outside an enum present.
C11_Witness ==
    \E s \in Slots :
        /\ Done(s, "validate_parameters")
        /\ request[s].tool_name = "data_analysis"
        /\ DOMAIN request[s].parameters = {"undeclared", "columns"}
        /\ ~response[s].outcome.ok
        /\ response[s].outcome.error = <<"Missing required parameter: ", "data">>

\* An accepted call whose values are outside the declared type and enum.
C11_WitnessAccepted ==
    \E s \in Slots :
        /\ Done(s, "validate_parameters")
        /\ request[s].tool_name = "web_search"
        /\ request[s].parameters = [query |-> "7", search_type |-> "7", undeclared |-> "web"]
        /\ response[s].outcome.ok

\* C13: the registry is read-only after startup: whatever requests have been
\* served or are in flight, the names, their order, and each tool's name,
\* description and parameter schema are those of the startup registry.
C13_RegistryReadOnly ==
    /\ Keys(tools) = Keys(DictDisplay(ToolItems))
    /\ \A n \in 1..Len(ToolItems) :
          /\ Has(tools, ToolItems[n].key)
          /\ Lookup(tools, ToolItems[n].key) = ToolItems[n].value
          /\ get_parameters(Lookup(tools, ToolItems[n].key)) = ToolItems[n].value.parameters

\* A batch with a successful item and an item whose execute raised has been
\* served, and a lookup still finds every tool.
C13_Witness ==
    \E s \in Slots :
        /\ Done(s, "execute_batch_tools")
        /\ \E j, k \in 1..Len(response[s].results) :
              /\ response[s].results[j].success
              /\ ~response[s].results[k].success
              /\ "execution_time" \in DOMAIN response[s].results[k]
        /\ \A n \in 1..Len(ToolItems) : Has(tools, ToolItems[n].key)

\* C14: in the schema of every registered tool, no parameter declared
\* required declares a default.
C14_RequiredHasNoDefault ==
    \A n \in 1..Len(tools) :
        LET schema == get_parameters(tools[n].value)
        IN  \A m \in 1..Len(schema) :
               schema[m].value.required => "default" \notin DOMAIN schema[m].value

\* Introspection has returned a schema with a required parameter and with an
\* optional parameter that declares a default.
C14_Witness ==
    \E s \in Slots :
        /\ Done(s, "get_tool_info")
        /\ response[s].kind = "tool"
        /\ LET schema == response[s].tool.parameters
           IN  /\ \E m \in 1..Len(schema) : schema[m].value.required
               /\ \E m \in 1..Len(schema) :
                     ~schema[m].value.required /\ "default" \in DOMAIN schema[m].value

\* C15: validation gates execution: every call of execute made for a dispatch
\* (single or batch item) carries parameters that pass the tool's schema
\* validation, so no call is made for a request that omits a required
\* parameter.
C15_ValidationGatesExecute ==
    \A s \in Slots :
        \A k \in 1..Len(executed[s]) :
            validate_parameters(Lookup(tools, executed[s][k].tool_name),
                                executed[s][k].parameters).ok

\* C17: a batch runs its items one after the other: at most one call of
\* execute is in progress, the calls are made in the order of the requests,
\* and while the call for position j is in progress the results of all
\* positions before j, and no others, have been appended.
C17_BatchItemsSequential ==
    \A s \in Slots :
        InBatch(s) =>
        /\ Len(executed[s]) - Len(returned[s]) \in {0, 1}
        /\ \A k \in 1..Len(executed[s]) :
              /\ k > 1 => executed[s][k - 1].pos < executed[s][k].pos
              /\ IF k > Len(returned[s])
                 THEN /\ pc[s] = "batch_await"
                      /\ Len(results[s]) = executed[s][k].pos - 1
                 ELSE Len(results[s]) >= executed[s][k].pos

\* The second call of execute of a batch is in progress; the first has
\* returned and its result is appended.
C17_Witness ==
    \E s \in Slots :
        /\ InBatch(s)
        /\ pc[s] = "batch_await"
        /\ Len(executed[s]) = 2
        /\ Len(returned[s]) = 1
        /\ Len(results[s]) = executed[s][2].pos - 1
        /\ Len(request[s].requests) > executed[s][2].pos

\* The tools whose execute reads nothing but its parameters: web_search (its
\* timestamp is a literal) and data_analysis.
PureTools == {"web_search", "data_analysis"}

\* C12: two dispatches of the same pure tool with identical parameters give
\* envelopes with equal success, data and message, whatever other requests
\* were served and however the clock moved between them.
C12_DispatchIdempotent ==
    \A s, o \in Slots :
        (/\ Done(s, "execute_tool") /\ Done(o, "execute_tool")
         /\ request[s].tool_name \in PureTools
         /\ request[s].tool_name = request[o].tool_name
         /\ request[s].parameters = request[o].parameters)
        => /\ response[s].kind = "ToolResponse" /\ response[o].kind = "ToolResponse"
           /\ response[s].success = response[o].success
           /\ response[s].data = response[o].data
           /\ response[s].message = response[o].message

\* Two successful dispatches of web_search with the same parameters whose
\* execution times differ.
C12_Witness ==
    \E s, o \in Slots :
        /\ s # o
        /\ Done(s, "execute_tool") /\ Done(o, "execute_tool")
        /\ request[s].tool_name = "web_search" /\ request[o].tool_name = "web_search"
        /\ request[s].parameters = request[o].parameters
        /\ response[s].success /\ response[o].success
        /\ response[s].execution_time # response[o].execution_time

\* The outcomes execute has for a request served alone, at any time.
Alone(req) ==
    UNION {Execute(Lookup(tools, req.tool_name), req.parameters, t) : t \in 0..MaxClock}

\* The batch item dispatch builds from an outcome of execute.
BatchItem(req, outcome) ==
    IF outcome.ok
    THEN BatchSuccess(req, outcome.value, 0)
    ELSE BatchFailure(req, outcome.error, 0)

\* C16: whatever other request is in flight, a finished dispatch or batch has
\* the response it has when served alone: success, data or error, and message
\* are those built from an outcome of execute on the request's own tool and
\* parameters (the 404 or the not-found item for an unknown name).
C16_ConcurrentAsAlone ==
    \A s \in Slots :
        /\ Done(s, "execute_tool") =>
              IF ~Has(tools, request[s].tool_name)
              THEN response[s] = ToolNotFound
              ELSE \E outcome \in Alone(request[s]) :
                      [response[s] EXCEPT !.execution_time = 0] = SingleEnvelope(outcome)
        /\ Done(s, "execute_batch_tools") =>
              /\ Len(response[s].results) = Len(request[s].requests)
              /\ \A j \in 1..Len(request[s].requests) :
                    LET req == request[s].requests[j]
                        item == response[s].results[j]
                    IN  IF ~Has(tools, req.tool_name)
                        THEN item = BatchNotFound(req)
                        ELSE \E outcome \in Alone(req) :
                                [item EXCEPT !.execution_time = 0] = BatchItem(req, outcome)

\* Two dispatches of the same tool with different parameters were in flight
\* together, and both have finished.
C16_Witness ==
    \E s, o \in Slots :
        /\ s # o
        /\ Done(s, "execute_tool") /\ Done(o, "execute_tool")
        /\ request[s].tool_name = request[o].tool_name
        /\ request[s].parameters # request[o].parameters
        /\ response[s].kind = "ToolResponse" /\ response[o].kind = "ToolResponse"
        /\ response[s].data # response[o].data
        /\ response[s].execution_time > 0 /\ response[o].execution_time > 0

====
